---------------------------- MODULE Spec2Model ----------------------------
(***************************************************************************)
(* A model of the gscpy GRASS GIS command line modules.                    *)
(*                                                                         *)
(* Each behaviour is one run of one module (prog): the option parser's     *)
(* result (argv, flags) and the environment (env) are drawn in Init, the   *)
(* actions are the steps of the module's __main__ block, of its main() and *)
(* of the methods main() calls.  Every call that leaves the module (a      *)
(* GRASS command, a hub API call, a subprocess) is appended to calls.      *)
(*                                                                         *)
(* Python values are tagged records: None, Str(s) with s the sequence of   *)
(* the string's characters, Tuple(xs) with xs a sequence of character      *)
(* sequences, PyIntVal(n) a Python int.                                    *)
(***************************************************************************)
EXTENDS Integers, Sequences, FiniteSets, TLC

VARIABLES
    prog,       \* the module that runs
    pc,         \* the position in the module's code
    argv,       \* options as returned by gs.parser(), never changed
    options,    \* the global dictionary options
    flags,      \* the global dictionary flags
    env,        \* the world outside: existing paths, directory content, hub
    self,       \* the attributes set so far on the module's object
    calls,      \* the external calls issued so far, in order
    stdout,     \* what was written to standard output, in order
    idx,        \* the index of a running for loop
    status      \* "running", "return0" or the error that ended the run

vars == <<prog, pc, argv, options, flags, env, self, calls, stdout, idx, status>>

---------------------------------------------------------------------------
(* Bounds of the model *)

\* the largest number of products the hub returns for a query
MaxProducts ==
    2

\* the largest number of files in the input directory
MaxFiles ==
    2

\* main: options['t_srs'] = 4326
Epsg4326 ==
    4326

\* main: options['resolution_value'] = 20
Resolution20 ==
    20

---------------------------------------------------------------------------
(* String literals, as character sequences *)

s_empty ==
    <<>>
s_ALL ==
    <<"A", "L", "L">>
s_All ==
    <<"A", "l", "l">>
s_SLC ==
    <<"S", "L", "C">>
s_IW ==
    <<"I", "W">>
s_ASCENDING ==
    <<"A", "S", "C", "E", "N", "D", "I", "N", "G">>
s_VV ==
    <<"V", "V">>
s_VV_VH ==
    <<"V", "V", ",", "V", "H">>
s_VV_sp_VH ==
    <<"V", "V", ",", " ", "V", "H">>
s_15 ==
    <<"1", "5">>
s_32630 ==
    <<"3", "2", "6", "3", "0">>
s_EPSG ==
    <<"E", "P", "S", "G", ":">>
s_date1 ==
    <<"2", "0", "1", "5", "-", "0", "1", "-", "0", "2">>
s_date2 ==
    <<"2", "0", "1", "5", "-", "0", "1", "-", "1", "2">>
s_grassdata ==
    <<"/", "g", "r", "a", "s", "s", "d", "a", "t", "a">>
s_germany ==
    <<"g", "e", "r", "m", "a", "n", "y">>
s_myFile ==
    <<"m", "y", "F", "i", "l", "e", ".", "t", "i", "f", "f">>
s_outdir ==
    <<"h", "o", "m", "e", "/", "u", "s", "r", "/", "d", "a", "t", "a">>
s_region ==
    <<"m", "y", ".", "g", "e", "o", "j", "s", "o", "n">>
s_user ==
    <<"D", "A", "L", "E", "K">>
s_pass ==
    <<"e", "x", "t", "e", "r", "m", "i", "n", "a", "t", "e">>

s_indir ==
    <<"d", "a", "t", "a">>
s_S1a_tif ==
    <<"S", "1", "a", ".", "t", "i", "f">>
s_b_tif ==
    <<"b", ".", "t", "i", "f">>
s_S1c_img ==
    <<"S", "1", "c", ".", "i", "m", "g">>
s_pattern ==
    <<"S", "1", ".", "*">>
s_any ==
    <<".", "*">>
s_tif ==
    <<".", "t", "i", "f">>
s_img ==
    <<".", "i", "m", "g">>
s_tif_star ==
    <<".", "t", "i", "f", "*">>
s_ENVI ==
    <<"E", "N", "V", "I">>
s_GEOTIFF ==
    <<"G", "E", "O", "T", "I", "F", "F">>
s_raster ==
    <<"r", "a", "s", "t", "e", "r">>
s_star_tempmean ==
    <<"*", "t", "e", "m", "p", "m", "e", "a", "n">>
s_export ==
    <<"_", "e", "x", "p", "o", "r", "t">>
s_zip ==
    <<".", "z", "i", "p">>
s_RangeDoppler ==
    <<"R", "a", "n", "g", "e", "-", "D", "o", "p", "p", "l", "e", "r">>
s_dB ==
    <<"d", "B">>
s_all ==
    <<"a", "l", "l">>
s_precip_sum ==
    <<"p", "r", "e", "c", "i", "p", "_", "s", "u", "m">>
s_comma ==
    <<"c", "o", "m", "m", "a">>
s_absolute ==
    <<"a", "b", "s", "o", "l", "u", "t", "e">>
s_mean ==
    <<"m", "e", "a", "n">>
s_Goettingen ==
    <<"G", "o", "e", "t", "t", "i", "n", "g", "e", "n">>

s_S1A ==
    <<"S", "1", "A">>
s_data_S1a_tif ==
    <<"d", "a", "t", "a", "/", "S", "1", "a", ".", "t", "i", "f">>
s_data_b_tif ==
    <<"d", "a", "t", "a", "/", "b", ".", "t", "i", "f">>

---------------------------------------------------------------------------
(* Python values and the builtins the modules use *)

None ==
    [t |-> "None", v |-> <<>>]

Str(s) ==
    [t |-> "str", v |-> s]

Tuple(xs) ==
    [t |-> "tuple", v |-> xs]

PyIntVal(n) ==
    [t |-> "int", v |-> n]

\* x is None
IsNone(x) ==
    x.t = "None"

\* the operator == of Python on these values
PyEq(a, b) ==
    a.t = b.t /\ a.v = b.v

\* str.split(sep) for a one character separator
RECURSIVE Split(_, _)
Split(s, sep) ==
    IF \A i \in 1..Len(s) : s[i] # sep
    THEN <<s>>
    ELSE LET i == CHOOSE k \in 1..Len(s) :
                      s[k] = sep /\ \A j \in 1..(k - 1) : s[j] # sep
         IN  <<SubSeq(s, 1, i - 1)>> \o Split(SubSeq(s, i + 1, Len(s)), sep)

\* temp = ''; for item in parts: temp += item
RECURSIVE Concat(_)
Concat(parts) ==
    IF parts = <<>> THEN <<>> ELSE Head(parts) \o Concat(Tail(parts))

DigitValue ==
    ("0" :> 0) @@ ("1" :> 1) @@ ("2" :> 2) @@ ("3" :> 3) @@ ("4" :> 4) @@
    ("5" :> 5) @@ ("6" :> 6) @@ ("7" :> 7) @@ ("8" :> 8) @@ ("9" :> 9)

\* int(s) for a string of decimal digits
RECURSIVE PyInt(_)
PyInt(s) ==
    IF s = <<>> THEN 0
    ELSE PyInt(SubSeq(s, 1, Len(s) - 1)) * 10 + DigitValue[s[Len(s)]]

\* str(n) for n >= 0
RECURSIVE PyStr(_)
PyStr(n) ==
    LET d == CHOOSE c \in DOMAIN DigitValue : DigitValue[c] = n % 10
    IN  IF n < 10 THEN <<d>> ELSE PyStr(n \div 10) \o <<d>>

\* os.path.join(a, b) on POSIX for two strings
PathJoin(a, b) ==
    IF b # <<>> /\ b[1] = "/" THEN b
    ELSE IF a = <<>> \/ a[Len(a)] = "/" THEN a \o b
    ELSE a \o <<"/">> \o b

\* str.endswith(suffix)
EndsWith(s, suffix) ==
    /\ Len(suffix) <= Len(s)
    /\ SubSeq(s, Len(s) - Len(suffix) + 1, Len(s)) = suffix

\* re.compile(p).match(s) is not None, for patterns made of literal
\* characters, '.' and a starred character: a match at the start of s
RECURSIVE ReMatch(_, _)
ReMatch(p, s) ==
    IF p = <<>> THEN TRUE
    ELSE IF Len(p) >= 2 /\ p[2] = "*"
    THEN \/ ReMatch(Tail(Tail(p)), s)
         \/ s # <<>> /\ (p[1] = "." \/ p[1] = s[1]) /\ ReMatch(p, Tail(s))
    ELSE s # <<>> /\ (p[1] = "." \/ p[1] = s[1]) /\ ReMatch(Tail(p), Tail(s))

\* os.path.basename(path)
RECURSIVE Basename(_)
Basename(path) ==
    IF \A i \in 1..Len(path) : path[i] # "/" THEN path
    ELSE Basename(Tail(path))

\* os.path.splitext(name)[0] for a name without directories
Splitext0(name) ==
    LET dots == {i \in 2..Len(name) : name[i] = "." /\
                    \E j \in 1..(i - 1) : name[j] # "."}
    IN  IF dots = {} THEN name
        ELSE SubSeq(name, 1, (CHOOSE i \in dots : \A j \in dots : j <= i) - 1)

\* the sequences of distinct elements of S of length at most n
SeqsUpTo(S, n) ==
    UNION {{q \in [1..k -> S] : \A i, j \in 1..k : i # j => q[i] # q[j]} :
           k \in 0..n}

\* change_dict_value(dictionary, old_value, new_value)
change_dict_value(dictionary, old_value, new_value) ==
    [key \in DOMAIN dictionary |->
        IF PyEq(dictionary[key], old_value) THEN new_value ELSE dictionary[key]]

\* tuple_multi_string(dictionary, sep)
tuple_multi_string(dictionary, sep) ==
    [key \in DOMAIN dictionary |->
        LET value_split == Split(dictionary[key].v, sep)
        IN  IF Len(value_split) = 1 \/ Len(value_split) = 0
            THEN dictionary[key]
            ELSE Tuple(value_split)]

\* a run that ended: nothing more happens
Ended ==
    status # "running"

\* raise / sys.exit / gs.fatal: the run ends with the given outcome
End(outcome) ==
    /\ status' = outcome
    /\ pc' = "end"

---------------------------------------------------------------------------
(* g.database: src/gscpy/g_db/g_database.py *)

GDbCandidates ==
    <<"grass70", "grass71", "grass72", "grass73", "grass74">>

GDbInit ==
    /\ prog = "g.database"
    /\ \E db_dir \in {s_empty, s_grassdata}, t_srs \in {s_empty, s_32630},
          t_srs_file \in {s_empty, s_myFile} :
            argv = [db_dir |-> Str(db_dir), db_name |-> Str(s_germany),
                    t_srs_file |-> Str(t_srs_file), t_srs |-> Str(t_srs)]
    /\ \E l \in BOOLEAN : flags = [l |-> l]
    /\ \E exists \in SUBSET {s_myFile} : env = [exists |-> exists]

\* __main__: options = change_dict_value(options, '', None)
GDbParse ==
    /\ prog = "g.database" /\ pc = "start" /\ ~Ended
    /\ options' = change_dict_value(options, Str(s_empty), None)
    /\ pc' = "main"
    /\ UNCHANGED <<prog, argv, flags, env, self, calls, stdout, idx, status>>

\* the outcome of Database.__init__: the attributes set, or the error raised
Database_init(db_dir, db_name, t_srs, t_srs_file, launch, exists) ==
    LET cand == [candidates |-> GDbCandidates]
    IN
    IF IsNone(t_srs) /\ IsNone(t_srs_file)
    THEN [raised |-> "ValueError", self |-> cand]
    ELSE IF ~IsNone(t_srs) /\ ~IsNone(t_srs_file)
    THEN [raised |-> "ValueError", self |-> cand]
    ELSE IF ~IsNone(t_srs_file) /\ t_srs_file.v \notin exists
    THEN [raised |-> "ValueError", self |-> cand]
    ELSE IF IsNone(db_dir)
    THEN [raised |-> "TypeError", self |-> cand]
    ELSE [raised |-> "no",
          self |-> [candidates |-> GDbCandidates,
                    t_srs |-> IF ~IsNone(t_srs) THEN PyIntVal(PyInt(t_srs.v)) ELSE None,
                    t_srs_file |-> t_srs_file,
                    db_name |-> db_name,
                    dir |-> Str(PathJoin(db_dir.v, db_name.v)),
                    launch |-> launch]]

\* main: creator = Database(...)
GDbConstruct ==
    /\ prog = "g.database" /\ pc = "main" /\ ~Ended
    /\ LET r == Database_init(options.db_dir, options.db_name, options.t_srs,
                              options.t_srs_file, flags.l, env.exists)
       IN  /\ self' = r.self
           /\ IF r.raised = "no"
              THEN pc' = "create_database" /\ status' = status
              ELSE End(r.raised)
    /\ idx' = 1
    /\ UNCHANGED <<prog, argv, options, flags, env, calls, stdout>>

\* Database.__build_start_command
build_start_command(obj, grass_version) ==
    IF ~IsNone(obj.t_srs)
    THEN IF obj.launch
         THEN <<Str(grass_version), Str("-c"),
                Str(s_EPSG \o PyStr(obj.t_srs.v)), obj.dir>>
         ELSE <<Str(grass_version), Str("-e"), Str("-c"),
                Str(s_EPSG \o PyStr(obj.t_srs.v)), obj.dir>>
    ELSE IF obj.launch
         THEN <<Str(grass_version), Str("-c"), obj.t_srs_file, obj.dir>>
         ELSE <<Str(grass_version), Str("-e"), Str("-c"), obj.t_srs_file, obj.dir>>

\* Database.create_database: one candidate of the for loop.  Popen raises
\* OSError when the executable is missing (next candidate), the command
\* returns non zero (RuntimeError) or zero (break).
GDbTryCandidate ==
    /\ prog = "g.database" /\ pc = "create_database" /\ ~Ended
    /\ idx <= Len(GDbCandidates)
    /\ \E outcome \in {"OSError", "nonzero", "zero"} :
          /\ calls' = Append(calls,
                 [op |-> "Popen",
                  startcmd |-> build_start_command(self, GDbCandidates[idx]),
                  outcome |-> outcome])
          /\ CASE outcome = "OSError" ->
                    idx' = idx + 1 /\ pc' = pc /\ status' = status
               [] outcome = "nonzero" ->
                    idx' = idx /\ End("RuntimeError")
               [] outcome = "zero" ->
                    idx' = idx /\ pc' = "created" /\ status' = status
    /\ UNCHANGED <<prog, argv, options, flags, env, self, stdout>>

\* Database.create_database after the loop, and main's return 0
GDbCreated ==
    /\ prog = "g.database" /\ ~Ended
    /\ \/ pc = "created"
       \/ pc = "create_database" /\ idx > Len(GDbCandidates)
    /\ stdout' = Append(stdout, "Database created")
    /\ End("return0")
    /\ UNCHANGED <<prog, argv, options, flags, env, self, calls, idx>>

---------------------------------------------------------------------------
(* ds1.download: src/gscpy/ds1_download/ds1_download.py *)

\* the products the hub holds for a query: a dictionary keyed by product id
HubProducts ==
    {1..n : n \in 0..MaxProducts}

DsInit ==
    /\ prog = "ds1.download"
    /\ \E timestart \in {s_date1, s_date2}, timeend \in {s_date1, s_date2},
          polarisationmode \in {s_empty, s_VV, s_VV_VH, s_VV_sp_VH},
          orbitnumber \in {s_empty, s_15},
          orbitdirection \in {s_ALL, s_ASCENDING},
          producttype \in {s_All, s_SLC},
          sensoroperationalmode \in {s_All, s_IW} :
            argv = [username |-> Str(s_user), password |-> Str(s_pass),
                    outdir |-> Str(s_outdir), region |-> Str(s_region),
                    timestart |-> Str(timestart), timeend |-> Str(timeend),
                    polarisationmode |-> Str(polarisationmode),
                    orbitnumber |-> Str(orbitnumber),
                    orbitdirection |-> Str(orbitdirection),
                    producttype |-> Str(producttype),
                    sensoroperationalmode |-> Str(sensoroperationalmode)]
    /\ \E p \in BOOLEAN : flags = [p |-> p]
    /\ \E exists \in SUBSET {s_outdir, s_region}, products \in HubProducts :
            env = [exists |-> exists, products |-> products]

\* __main__: options = tuple_multi_string(options)
DsTupleMultiString ==
    /\ prog = "ds1.download" /\ pc = "start" /\ ~Ended
    /\ options' = tuple_multi_string(options, ",")
    /\ pc' = "tupled"
    /\ UNCHANGED <<prog, argv, flags, env, self, calls, stdout, idx, status>>

\* __main__: the three calls of change_dict_value
DsNormalise(opts) ==
    change_dict_value(
        change_dict_value(
            change_dict_value(opts, Str(s_empty), None),
            Str(s_ALL), None),
        Str(s_All), None)

DsChangeDictValue ==
    /\ prog = "ds1.download" /\ pc = "tupled" /\ ~Ended
    /\ options' = DsNormalise(options)
    /\ pc' = "main"
    /\ UNCHANGED <<prog, argv, flags, env, self, calls, stdout, idx, status>>

\* main: the region path with every backslash doubled (the path is drawn
\* normalised, so os.path.normpath leaves it as it is)
RegionEscape(region) ==
    LET parts == Split(region, "\\")
        regs  == Concat([i \in 1..Len(parts) |-> parts[i] \o <<"\\", "\\">>])
    IN  SubSeq(regs, 1, Len(regs) - 2)

\* S1Download.__init__: < Reformat Time >
ReformatTime(time) ==
    Concat(Split(time, "-"))

\* a slip in the time reformatting: the end is built from the start
S1Download_date_startTwice(timestart, timeend) ==
    <<ReformatTime(timestart), ReformatTime(timestart)>>

\* S1Download.__init__: self.date
S1Download_date(timestart, timeend) ==
    <<ReformatTime(timestart), ReformatTime(timeend)>>

\* a slip in __KEYS__: the first two names are exchanged
S1Download_KEYS_exchanged ==
    <<"polarisationmode", "producttype", "sensoroperationalmode",
      "orbitnumber", "orbitdirection">>

\* S1Download.__init__: __KEYS__
S1Download_KEYS ==
    <<"producttype", "polarisationmode", "sensoroperationalmode",
      "orbitnumber", "orbitdirection">>

\* S1Download.__init__: self.kwargs
S1Download_kwargs(input_parameter) ==
    LET set == {i \in 1..Len(input_parameter) : ~IsNone(input_parameter[i])}
    IN  [key \in {S1Download_KEYS[i] : i \in set} |->
            input_parameter[CHOOSE i \in set : S1Download_KEYS[i] = key]]

\* S1Download.__init__ up to the hub query: the attributes set, the paths
\* that exist afterwards and the error raised, if any
S1Download_init(region, timestart, timeend, outdir, producttype, polarisationmode, sensoroperationalmode, orbitnumber, orbitdirection, exists) ==
    LET made  == IF outdir.v \notin exists THEN exists \cup {outdir.v} ELSE exists
        attr1 == IF outdir.v \notin exists THEN <<>> ELSE [outdir |-> outdir]
    IN  IF region.v \notin exists
        THEN [raised |-> "IOError", exists |-> made, self |-> attr1]
        ELSE [raised |-> "no", exists |-> made,
              self |-> attr1 @@
                  [region |-> region,
                   date |-> S1Download_date(timestart.v, timeend.v),
                   kwargs |-> S1Download_kwargs(
                       <<producttype, polarisationmode, sensoroperationalmode,
                         orbitnumber, orbitdirection>>)]]

\* main: downloader = S1Download(...), with the query on the hub
DsConstruct ==
    /\ prog = "ds1.download" /\ pc = "main" /\ ~Ended
    /\ LET r == S1Download_init(Str(RegionEscape(options.region.v)),
                    options.timestart, options.timeend, options.outdir,
                    options.producttype, options.polarisationmode,
                    options.sensoroperationalmode, options.orbitnumber,
                    options.orbitdirection, env.exists)
       IN  /\ env' = [env EXCEPT !.exists = r.exists]
           /\ IF r.raised # "no"
              THEN /\ self' = r.self
                   /\ calls' = calls
                   /\ End(r.raised)
              ELSE \E hub \in {"ok", "error"} :
                   /\ calls' = Append(calls,
                          [op |-> "query", area |-> r.self.region,
                           date |-> r.self.date, platformname |-> "Sentinel-1",
                           kwargs |-> r.self.kwargs, outcome |-> hub])
                   /\ IF hub = "ok"
                      THEN /\ self' = r.self @@ [products |-> env.products,
                                                 files |-> env.products]
                           /\ pc' = "dispatch"
                           /\ status' = status
                      ELSE /\ self' = r.self
                           /\ End("SentinelAPIError")
    /\ UNCHANGED <<prog, argv, options, flags, stdout, idx>>

\* a slip in main: the flag is never looked at
DsPrintOnly_never ==
    FALSE

\* main: if flags['p']
DsPrintOnly ==
    flags.p

\* main: if flags['p']: downloader.print_products(); return 0
DsPrintProducts ==
    /\ prog = "ds1.download" /\ pc = "dispatch" /\ ~Ended
    /\ DsPrintOnly
    /\ stdout' = Append(stdout, [files |-> self.files])
    /\ End("return0")
    /\ UNCHANGED <<prog, argv, options, flags, env, self, calls, idx>>

\* main: downloader.download(); return 0.  S1Download.download reads
\* self.outdir, which raises AttributeError when it was never set.
DsDownload ==
    /\ prog = "ds1.download" /\ pc = "dispatch" /\ ~Ended
    /\ ~DsPrintOnly
    /\ IF "outdir" \notin DOMAIN self
       THEN /\ calls' = Append(calls, [op |-> "download"])
            /\ End("AttributeError")
       ELSE \E hub \in {"ok", "error"} :
            /\ calls' = calls \o
                   <<[op |-> "download"],
                     [op |-> "download_all", products |-> self.products,
                      directory_path |-> self.outdir, outcome |-> hub]>>
            /\ End(IF hub = "ok" THEN "return0" ELSE "SentinelAPIError")
    /\ UNCHANGED <<prog, argv, options, flags, env, self, stdout, idx>>

---------------------------------------------------------------------------
(* d.s1.download: src/gscpy/d_s1_download/d.s1.download.py
   d.s1:          src/gscpy/d_s1/d.s1.py *)

DS1Init ==
    /\ prog \in {"d.s1.download", "d.s1"}
    /\ \E timestart \in {s_date1, s_date2}, timend \in {s_date1, s_date2} :
            argv = [username |-> Str(s_user), password |-> Str(s_pass),
                    region |-> Str(s_region),
                    timestart |-> Str(timestart), timend |-> Str(timend)]
    /\ flags = <<>>
    /\ \E exists \in SUBSET {s_region}, products \in HubProducts :
            env = [exists |-> exists, products |-> products]

\* d.s1.download main: the tuple date
d_s1_download_date(timestart_opt, timend_opt) ==
    LET timestart_split == Split(timestart_opt, "-")
        timestart       == Concat(timestart_split)
        timeend_split   == Split(timestart, "-")
        timeend         == Concat(timeend_split)
    IN  <<timestart, timeend>>

\* d.s1 main: the tuple date
d_s1_date(timestart_opt, timend_opt) ==
    LET timestart_split == Split(timestart_opt, "-")
        timestart       == Concat(timestart_split)
        timeend_split   == Split(timestart, "-")
        timeend         == Concat(timeend_split)
    IN  <<timestart, timeend>>

\* main of either module from the parsed options to the end: the query, then
\* the download of all its results.  Either hub call may fail.  The filter
\* options are read into locals that no call uses (the keywords of the query
\* are commented out), so they are left out of argv.
DS1MainRun(date) ==
    /\ pc = "start" /\ ~Ended
    /\ LET region == RegionEscape(options.region.v)
           query(o) == [op |-> "query", area |-> Str(region), date |-> date,
                        platformname |-> "Sentinel-1", kwargs |-> <<>>,
                        outcome |-> o]
       IN  IF region \notin env.exists
           THEN calls' = calls /\ End("IOError")
           ELSE \/ /\ calls' = Append(calls, query("error"))
                   /\ End("SentinelAPIError")
                \/ \E hub \in {"ok", "error"} :
                   /\ calls' = calls \o
                          <<query("ok"),
                            [op |-> "download_all", products |-> env.products,
                             outcome |-> hub]>>
                   /\ End(IF hub = "ok" THEN "return0" ELSE "SentinelAPIError")
    /\ UNCHANGED <<prog, argv, options, flags, env, self, stdout, idx>>

DS1DownloadMain ==
    /\ prog = "d.s1.download"
    /\ DS1MainRun(d_s1_download_date(options.timestart.v, options.timend.v))

DS1Main ==
    /\ prog = "d.s1"
    /\ DS1MainRun(d_s1_date(options.timestart.v, options.timend.v))

---------------------------------------------------------------------------
(* The import of detected files, the same code in
   src/gscpy/i_import/i_dr_import.py and src/gscpy/i_import/i_fr_import.py *)

\* a GRASS command issued with gs.run_command and how it ended
Command(module, fl, input, output, args, ok) ==
    [op |-> module, flags |-> fl, input |-> input, output |-> output,
     args |-> args, ok |-> ok]

\* import_products: module
ImportModule(reproject, link) ==
    IF link THEN "r.external"
    ELSE IF reproject THEN "r.import" ELSE "r.in.gdal"

\* import_products: args, before __import_file adds resolution_value
ImportArgs(reproject, link) ==
    IF ~link /\ reproject
    THEN [resample |-> "bilinear", resolution |-> "value"]
    ELSE <<>>

\* a slip in import_products: the projection is never checked
NeedsProjectionCheck_never(reproject, link) ==
    FALSE

\* import_products: if link or (not link and not reproject)
NeedsProjectionCheck(reproject, link) ==
    link \/ (~link /\ ~reproject)

\* import_products: does the for loop over self.files run at all (the loop
\* stands in the else branch of "if link")
ImportLoopRuns(link) ==
    ~link

\* import_products: one pass of "for f in self.files".  The projection check
\* and the import are GRASS commands that may fail; gdal.Open may fail in
\* __raster_resolution, and then the run ends with AttributeError.
ImportFile(f, reproject, link) ==
    LET module  == ImportModule(reproject, link)
        mapname == Str(Splitext0(Basename(f)))
        check(ok) == Command("r.in.gdal", "j", Str(f), None, [quiet |-> TRUE], ok)
        checked == IF NeedsProjectionCheck(reproject, link)
                   THEN <<check(TRUE)>> ELSE <<>>
        args    == IF module = "r.import"
                   THEN ImportArgs(reproject, link) @@ [resolution_value |-> "int"]
                   ELSE ImportArgs(reproject, link)
    IN  \/ /\ NeedsProjectionCheck(reproject, link)
           /\ calls' = Append(calls, check(FALSE))
           /\ idx' = idx
           /\ End("fatal")
        \/ /\ module = "r.import"
           /\ calls' = calls \o checked
           /\ idx' = idx
           /\ End("AttributeError")
        \/ \E ok \in BOOLEAN :
           /\ calls' = calls \o checked
                  \o <<Command(module, "", Str(f), mapname, args, ok)>>
                  \o (IF ok THEN <<Command("raster_history", "", mapname, None,
                                           <<>>, TRUE)>>
                      ELSE <<>>)
           /\ idx' = idx + 1
           /\ pc' = pc
           /\ status' = status

\* print_products: one pass of "for f in self.files"
PrintFile(f) ==
    \E ok \in BOOLEAN :
       /\ calls' = Append(calls,
              Command("r.in.gdal", "j", Str(f), None, [quiet |-> TRUE], ok))
       /\ \/ /\ stdout' = Append(stdout, [file |-> f, projection |-> ok])
             /\ idx' = idx + 1
             /\ pc' = pc
             /\ status' = status
          \/ /\ stdout' = stdout
             /\ idx' = idx
             /\ End("AttributeError")

---------------------------------------------------------------------------
(* i.dr.import: src/gscpy/i_import/i_dr_import.py *)

FileNames ==
    {s_S1a_tif, s_b_tif, s_S1c_img}

IdrInit ==
    /\ prog = "i.dr.import"
    /\ \E pattern \in {s_empty, s_pattern}, extension \in {s_tif, s_img},
          mapset \in {s_empty, s_Goettingen} :
            argv = [input_dir |-> Str(s_indir), pattern |-> Str(pattern),
                    extension |-> Str(extension), mapset |-> Str(mapset),
                    location |-> Str(s_empty), dbase |-> Str(s_empty)]
    /\ \E r \in BOOLEAN, l \in BOOLEAN, c \in BOOLEAN, p \in BOOLEAN :
            flags = [r |-> r, l |-> l, c |-> c, p |-> p]
    /\ \E exists \in SUBSET {s_indir}, listing \in SeqsUpTo(FileNames, MaxFiles) :
            env = [exists |-> exists, listing |-> listing]

\* __main__: options = change_dict_value(options, '', None)
IdrParse ==
    /\ prog = "i.dr.import" /\ pc = "start" /\ ~Ended
    /\ options' = change_dict_value(options, Str(s_empty), None)
    /\ pc' = "main"
    /\ UNCHANGED <<prog, argv, flags, env, self, calls, stdout, idx, status>>

\* DirImport.__filter for a directory without subdirectories; S1Import.__filter
\* (i.s1.import.py) and Geocode.__filter (pr_geocode.py, geocode.py) are the
\* same code
DirImport_filter(input_dir, extension, filter_p, listing) ==
    LET match == SelectSeq(listing, LAMBDA f : ReMatch(filter_p, f))
        kept  == SelectSeq(match, LAMBDA f : EndsWith(f, extension))
    IN  [i \in 1..Len(kept) |-> PathJoin(input_dir, kept[i])]

\* DirImport.__init__: the attributes set, or the fatal error
DirImport_init(input_dir, pattern, extension, exists, listing) ==
    LET ext      == IF ~IsNone(extension) THEN extension.v ELSE s_tif
        filter_p == IF ~IsNone(pattern) THEN pattern.v \o ext ELSE s_any \o ext
    IN  IF input_dir.v \notin exists
        THEN [raised |-> "fatal", self |-> [_dir_list |-> <<>>]]
        ELSE [raised |-> "no",
              self |-> [_dir_list |-> <<>>, input_dir |-> input_dir,
                        extension |-> Str(ext), filter_p |-> Str(filter_p),
                        files |-> DirImport_filter(input_dir.v, ext, filter_p,
                                                   listing)]]

\* main: importer = DirImport(...)
IdrConstruct ==
    /\ prog = "i.dr.import" /\ pc = "main" /\ ~Ended
    /\ LET r == DirImport_init(options.input_dir, options.pattern,
                               options.extension, env.exists, env.listing)
       IN  /\ self' = r.self
           /\ IF r.raised = "no"
              THEN pc' = "dispatch" /\ status' = status
              ELSE End(r.raised)
    /\ idx' = 1
    /\ UNCHANGED <<prog, argv, options, flags, env, calls, stdout>>

\* main: if flags['p']: importer.print_products(), one file
IdrPrintFile ==
    /\ prog = "i.dr.import" /\ pc = "dispatch" /\ ~Ended
    /\ flags.p /\ idx <= Len(self.files)
    /\ PrintFile(self.files[idx])
    /\ UNCHANGED <<prog, argv, options, flags, env, self>>

\* main: print_products is through; return 0
IdrPrintDone ==
    /\ prog = "i.dr.import" /\ pc = "dispatch" /\ ~Ended
    /\ flags.p /\ idx > Len(self.files)
    /\ End("return0")
    /\ UNCHANGED <<prog, argv, options, flags, env, self, calls, stdout, idx>>

\* a slip in main: the mapset is held to be missing whatever was given
IdrMapsetMissing_always(mapset) ==
    TRUE

\* main: if options['mapset'] == ''
IdrMapsetMissing(mapset) ==
    PyEq(mapset, Str(s_empty))

\* main: if flags['c']: the mapset check and DirImport.create_mapset
IdrMapset ==
    /\ prog = "i.dr.import" /\ pc = "dispatch" /\ ~Ended
    /\ ~flags.p
    /\ IF flags.c
       THEN IF IdrMapsetMissing(options.mapset)
            THEN calls' = calls /\ End("ValueError")
            ELSE \E ok \in BOOLEAN :
                 /\ calls' = Append(calls,
                        Command("g.c.mapset", "", None, None,
                                [mapset |-> options.mapset,
                                 dbase |-> options.dbase,
                                 location |-> options.location], ok))
                 /\ IF ok
                    THEN pc' = "import_products" /\ status' = status
                    ELSE End("CalledModuleError")
       ELSE calls' = calls /\ pc' = "import_products" /\ status' = status
    /\ UNCHANGED <<prog, argv, options, flags, env, self, stdout, idx>>

\* main: importer.import_products(flags['r'], flags['l']) up to its for loop
IdrImportProducts ==
    /\ prog = "i.dr.import" /\ pc = "import_products" /\ ~Ended
    /\ IF ImportLoopRuns(flags.l)
       THEN pc' = "import_loop" /\ status' = status
       ELSE End("return0")
    /\ UNCHANGED <<prog, argv, options, flags, env, self, calls, stdout, idx>>

\* import_products: one file of the for loop
IdrImportFile ==
    /\ prog = "i.dr.import" /\ pc = "import_loop" /\ ~Ended
    /\ idx <= Len(self.files)
    /\ ImportFile(self.files[idx], flags.r, flags.l)
    /\ UNCHANGED <<prog, argv, options, flags, env, self, stdout>>

\* import_products is through; main returns 0
IdrImportDone ==
    /\ prog = "i.dr.import" /\ pc = "import_loop" /\ ~Ended
    /\ idx > Len(self.files)
    /\ End("return0")
    /\ UNCHANGED <<prog, argv, options, flags, env, self, calls, stdout, idx>>

---------------------------------------------------------------------------
(* i.fr.import: src/gscpy/i_import/i_fr_import.py *)

IfrFilterOptions ==
    {"sensor", "acquisition_mode", "polarization", "product", "projection",
     "orbit", "spacing", "sample", "lines", "start", "stop"}

IfrInit ==
    /\ prog = "i.fr.import"
    /\ \E sensor \in {s_empty, s_S1A},
          polarization \in {s_empty, s_VV, s_VV_sp_VH},
          mapset \in {s_empty, s_Goettingen} :
            argv = [input_dir |-> Str(s_indir), mapset |-> Str(mapset),
                    sensor |-> Str(sensor), polarization |-> Str(polarization)]
                   @@ [k \in IfrFilterOptions \cup {"location", "dbase"} |->
                          Str(s_empty)]
    /\ \E r \in BOOLEAN, l \in BOOLEAN, c \in BOOLEAN, p \in BOOLEAN,
          e \in BOOLEAN :
            flags = [r |-> r, l |-> l, c |-> c, p |-> p, e |-> e]
    /\ \E found \in SeqsUpTo({s_data_S1a_tif, s_data_b_tif}, MaxFiles) :
            env = [found |-> found]

\* __main__: options = tuple_multi_string(options)
IfrTupleMultiString ==
    /\ prog = "i.fr.import" /\ pc = "start" /\ ~Ended
    /\ options' = tuple_multi_string(options, ",")
    /\ pc' = "tupled"
    /\ UNCHANGED <<prog, argv, flags, env, self, calls, stdout, idx, status>>

\* __main__: options = change_dict_value(options, '', None)
IfrChangeDictValue ==
    /\ prog = "i.fr.import" /\ pc = "tupled" /\ ~Ended
    /\ options' = change_dict_value(options, Str(s_empty), None)
    /\ pc' = "main"
    /\ UNCHANGED <<prog, argv, flags, env, self, calls, stdout, idx, status>>

\* __LOCAL__
FinderImport_LOCAL ==
    <<"sensor", "projection", "orbit", "polarization", "acquisition_mode",
      "start", "stop", "product", "spacing", "samples", "lines">>

\* FinderImport.__init__: self.kwargs
FinderImport_kwargs(input_parameter) ==
    LET set == {i \in 1..Len(input_parameter) : ~IsNone(input_parameter[i])}
    IN  [key \in {FinderImport_LOCAL[i] : i \in set} |->
            input_parameter[CHOOSE i \in set : FinderImport_LOCAL[i] = key]]

\* main: importer = FinderImport(...); the files are those find_datasets of
\* pyroSAR finds
IfrConstruct ==
    /\ prog = "i.fr.import" /\ pc = "main" /\ ~Ended
    /\ LET kwargs == FinderImport_kwargs(
                         <<options.sensor, options.projection, options.orbit,
                           options.polarization, options.acquisition_mode,
                           options.start, options.stop, options.product,
                           options.spacing, options.sample, options.lines>>)
       IN  /\ calls' = Append(calls,
                  Command("find_datasets", "", options.input_dir, None,
                          [recursive |-> flags.e, kwargs |-> kwargs], TRUE))
           /\ self' = [input_dir |-> options.input_dir, recursive |-> flags.e,
                       kwargs |-> kwargs, files |-> env.found]
    /\ pc' = "dispatch"
    /\ idx' = 1
    /\ UNCHANGED <<prog, argv, options, flags, env, stdout, status>>

\* main: if flags['p']: importer.print_products(), one file
IfrPrintFile ==
    /\ prog = "i.fr.import" /\ pc = "dispatch" /\ ~Ended
    /\ flags.p /\ idx <= Len(self.files)
    /\ PrintFile(self.files[idx])
    /\ UNCHANGED <<prog, argv, options, flags, env, self>>

\* main: print_products is through; return 0
IfrPrintDone ==
    /\ prog = "i.fr.import" /\ pc = "dispatch" /\ ~Ended
    /\ flags.p /\ idx > Len(self.files)
    /\ End("return0")
    /\ UNCHANGED <<prog, argv, options, flags, env, self, calls, stdout, idx>>

\* main: if options['mapset'] is None
IfrMapsetMissing(mapset) ==
    IsNone(mapset)

\* main: if flags['c']: the mapset check and FinderImport.create_mapset
IfrMapset ==
    /\ prog = "i.fr.import" /\ pc = "dispatch" /\ ~Ended
    /\ ~flags.p
    /\ IF flags.c
       THEN IF IfrMapsetMissing(options.mapset)
            THEN calls' = calls /\ End("ValueError")
            ELSE \E ok \in BOOLEAN :
                 /\ calls' = Append(calls,
                        Command("g.mapset", "c", None, None,
                                [mapset |-> options.mapset,
                                 dbase |-> options.dbase,
                                 location |-> options.location], ok))
                 /\ IF ok
                    THEN pc' = "import_products" /\ status' = status
                    ELSE End("CalledModuleError")
       ELSE calls' = calls /\ pc' = "import_products" /\ status' = status
    /\ UNCHANGED <<prog, argv, options, flags, env, self, stdout, idx>>

\* main: importer.import_products(flags['r'], flags['l']) up to its for loop
IfrImportProducts ==
    /\ prog = "i.fr.import" /\ pc = "import_products" /\ ~Ended
    /\ IF ImportLoopRuns(flags.l)
       THEN pc' = "import_loop" /\ status' = status
       ELSE End("return0")
    /\ UNCHANGED <<prog, argv, options, flags, env, self, calls, stdout, idx>>

\* import_products: one file of the for loop
IfrImportFile ==
    /\ prog = "i.fr.import" /\ pc = "import_loop" /\ ~Ended
    /\ idx <= Len(self.files)
    /\ ImportFile(self.files[idx], flags.r, flags.l)
    /\ UNCHANGED <<prog, argv, options, flags, env, self, stdout>>

\* import_products is through; main returns 0
IfrImportDone ==
    /\ prog = "i.fr.import" /\ pc = "import_loop" /\ ~Ended
    /\ idx > Len(self.files)
    /\ End("return0")
    /\ UNCHANGED <<prog, argv, options, flags, env, self, calls, stdout, idx>>

---------------------------------------------------------------------------
(* i.s1.import: src/gscpy/i_s1_import/i.s1.import.py *)

S1FileNames ==
    {s_S1c_img, <<"d", ".", "i", "m", "g">>, s_b_tif}

IS1Init ==
    /\ prog = "i.s1.import"
    /\ \E pattern \in {s_empty, s_pattern}, extension \in {s_ENVI, s_GEOTIFF} :
            argv = [input |-> Str(s_indir), pattern |-> Str(pattern),
                    extension |-> Str(extension)]
    /\ \E r \in BOOLEAN, l \in BOOLEAN, p \in BOOLEAN :
            flags = [r |-> r, l |-> l, p |-> p]
    /\ \E exists \in SUBSET {s_indir}, listing \in SeqsUpTo(S1FileNames, MaxFiles) :
            env = [exists |-> exists, listing |-> listing]

\* main: pattern = None if options['pattern'] == '' else options['pattern']
IS1Pattern(opts) ==
    IF PyEq(opts.pattern, Str(s_empty)) THEN None ELSE opts.pattern

\* main: extension = '.img' if options['extension'] == 'ENVI' else '.tif*'
IS1Extension(opts) ==
    IF PyEq(opts.extension, Str(s_ENVI)) THEN Str(s_img) ELSE Str(s_tif_star)

\* S1Import.__init__: the attributes set, or the fatal error
S1Import_init(dir, pattern, extension, exists, listing) ==
    LET ext      == IF ~IsNone(extension) THEN extension.v ELSE s_img
        filter_p == IF ~IsNone(pattern) THEN pattern.v \o ext ELSE s_any \o ext
    IN  IF dir.v \notin exists
        THEN [raised |-> "fatal", self |-> [_dir_list |-> <<>>]]
        ELSE [raised |-> "no",
              self |-> [_dir_list |-> <<>>, dir |-> dir,
                        extension |-> Str(ext), filter_p |-> Str(filter_p),
                        files |-> DirImport_filter(dir.v, ext, filter_p,
                                                   listing)]]

\* main: pattern, extension, importer = S1Import(...)
IS1Construct ==
    /\ prog = "i.s1.import" /\ pc = "start" /\ ~Ended
    /\ LET r == S1Import_init(options.input, IS1Pattern(options),
                               IS1Extension(options), env.exists, env.listing)
       IN  /\ self' = r.self
           /\ IF r.raised = "no"
              THEN pc' = "dispatch" /\ status' = status
              ELSE End(r.raised)
    /\ idx' = 1
    /\ UNCHANGED <<prog, argv, options, flags, env, calls, stdout>>

\* main: if flags['p']: importer.print_products(), one file
IS1PrintFile ==
    /\ prog = "i.s1.import" /\ pc = "dispatch" /\ ~Ended
    /\ flags.p /\ idx <= Len(self.files)
    /\ PrintFile(self.files[idx])
    /\ UNCHANGED <<prog, argv, options, flags, env, self>>

\* main: the statement after "if flags['p']" is
\* importer.import_products(flags['r'], flags['l']), reached whether or not
\* print_products ran, up to the for loop of import_products
IS1ImportProducts ==
    /\ prog = "i.s1.import" /\ pc = "dispatch" /\ ~Ended
    /\ flags.p => idx > Len(self.files)
    /\ idx' = 1
    /\ IF ImportLoopRuns(flags.l)
       THEN pc' = "import_loop" /\ status' = status
       ELSE End("return0")
    /\ UNCHANGED <<prog, argv, options, flags, env, self, calls, stdout>>

\* import_products: one file of the for loop
IS1ImportFile ==
    /\ prog = "i.s1.import" /\ pc = "import_loop" /\ ~Ended
    /\ idx <= Len(self.files)
    /\ ImportFile(self.files[idx], flags.r, flags.l)
    /\ UNCHANGED <<prog, argv, options, flags, env, self, stdout>>

\* import_products is through; main returns 0
IS1ImportDone ==
    /\ prog = "i.s1.import" /\ pc = "import_loop" /\ ~Ended
    /\ idx > Len(self.files)
    /\ End("return0")
    /\ UNCHANGED <<prog, argv, options, flags, env, self, calls, stdout, idx>>

---------------------------------------------------------------------------
(* out.l.gdal: src/gscpy/out_l_export/out_l_gdal.py *)

MapNames ==
    {<<"a", "_", "t", "e", "m", "p", "m", "e", "a", "n">>,
     <<"b", "_", "t", "e", "m", "p", "m", "e", "a", "n">>}

OlgInit ==
    /\ prog = "out.l.gdal"
    /\ \E pattern \in {s_empty, s_star_tempmean}, output \in {s_empty, s_export} :
            argv = [type |-> Str(s_raster), outdir |-> Str(s_outdir),
                    pattern |-> Str(pattern), output |-> Str(output)]
                   @@ [k \in {"exclude", "mapset", "region", "createopt",
                              "metaopt", "nodata"} |-> Str(s_empty)]
    /\ \E i \in BOOLEAN, x \in BOOLEAN, p \in BOOLEAN :
            flags = [i |-> i, x |-> x, p |-> p]
    /\ \E exists \in SUBSET {s_outdir}, listed \in BOOLEAN,
          maps \in SeqsUpTo(MapNames, MaxFiles) :
            env = [exists |-> exists, listed |-> listed, maps |-> maps]

\* __main__: options = change_dict_value(options, '', None)
OlgChangeDictValue ==
    /\ prog = "out.l.gdal" /\ pc = "start" /\ ~Ended
    /\ options' = change_dict_value(options, Str(s_empty), None)
    /\ pc' = "main"
    /\ UNCHANGED <<prog, argv, flags, env, self, calls, stdout, idx, status>>

\* OutLGdal.__init__: a dictionary of the parameters that are not None
OutLGdal_kwargs(keys, opts) ==
    [k \in {key \in keys : ~IsNone(opts[key])} |-> opts[k]]

\* OutLGdal.__init__: the attributes set; self.outdir is set in the else
\* branch of "if not os.path.exists(outdir)"
OutLGdal_init(opts, suffix, exists) ==
    (IF opts.outdir.v \in exists THEN [outdir |-> opts.outdir] ELSE <<>>)
    @@ [type |-> opts.type, exclude |-> opts.exclude, mapset |-> opts.mapset,
        region |-> opts.region, format |-> "GTiff", output |-> opts.output,
        createopt |-> opts.createopt, metaopt |-> opts.metaopt,
        nodata |-> opts.nodata, suffix |-> suffix,
        lkwargs |-> OutLGdal_kwargs({"pattern", "exclude", "mapset", "region"},
                                    opts),
        ekwargs |-> OutLGdal_kwargs({"createopt", "metaopt", "nodata"}, opts)]

\* main: exporter = OutLGdal(...)
OlgConstruct ==
    /\ prog = "out.l.gdal" /\ pc = "main" /\ ~Ended
    /\ self' = OutLGdal_init(options, flags.x, env.exists)
    /\ pc' = "list_files"
    /\ UNCHANGED <<prog, argv, options, flags, env, calls, stdout, idx, status>>

\* main: files = exporter.list_files(i=flags['i']); when g.list fails
\* __list_files returns None and raw_files.keys() raises
OlgListFiles ==
    /\ prog = "out.l.gdal" /\ pc = "list_files" /\ ~Ended
    /\ calls' = Append(calls,
           Command("g.list", IF flags.i THEN "i" ELSE "", None, None,
                   [type |-> self.type, lkwargs |-> self.lkwargs], env.listed))
    /\ idx' = 1
    /\ IF env.listed
       THEN pc' = "dispatch" /\ status' = status
       ELSE End("AttributeError")
    /\ UNCHANGED <<prog, argv, options, flags, env, self, stdout>>

\* main: if flags['p']: exporter.print_products(files), one file
OlgPrintFile ==
    /\ prog = "out.l.gdal" /\ pc = "dispatch" /\ ~Ended
    /\ flags.p /\ idx <= Len(env.maps)
    /\ stdout' = Append(stdout, [file |-> env.maps[idx]])
    /\ idx' = idx + 1
    /\ UNCHANGED <<prog, pc, argv, options, flags, env, self, calls, status>>

\* main: print_products is through; return 0
OlgPrintDone ==
    /\ prog = "out.l.gdal" /\ pc = "dispatch" /\ ~Ended
    /\ flags.p /\ idx > Len(env.maps)
    /\ End("return0")
    /\ UNCHANGED <<prog, argv, options, flags, env, self, calls, stdout, idx>>

\* export_files: output, from the attributes outdir, output and suffix
export_files_output(outdir, output, suffix, file) ==
    IF IsNone(output)
    THEN PathJoin(outdir.v, file \o s_tif)
    ELSE IF suffix
         THEN PathJoin(outdir.v, file \o output.v \o s_tif)
         ELSE PathJoin(outdir.v, output.v \o file \o s_tif)

\* export_files: one pass of "for file in files"; reading self.outdir raises
\* AttributeError when __init__ did not set it; __export_list passes over a
\* failure of r.out.gdal
OlgExportFile ==
    /\ prog = "out.l.gdal" /\ pc = "dispatch" /\ ~Ended
    /\ ~flags.p /\ idx <= Len(env.maps)
    /\ IF "outdir" \notin DOMAIN self
       THEN calls' = calls /\ idx' = idx /\ End("AttributeError")
       ELSE \E ok \in BOOLEAN :
            /\ calls' = Append(calls,
                   Command("r.out.gdal", "", Str(env.maps[idx]),
                           Str(export_files_output(self.outdir, self.output,
                                                   self.suffix, env.maps[idx])),
                           self.ekwargs, ok))
            /\ idx' = idx + 1
            /\ pc' = pc
            /\ status' = status
    /\ UNCHANGED <<prog, argv, options, flags, env, self, stdout>>

\* main: export_files is through; return 0
OlgExportDone ==
    /\ prog = "out.l.gdal" /\ pc = "dispatch" /\ ~Ended
    /\ ~flags.p /\ idx > Len(env.maps)
    /\ End("return0")
    /\ UNCHANGED <<prog, argv, options, flags, env, self, calls, stdout, idx>>

---------------------------------------------------------------------------
(* pr.geocode: src/gscpy/pr_geocode/pr_geocode.py *)

ZipNames ==
    {<<"S", "1", "a", ".", "z", "i", "p">>, <<"b", ".", "z", "i", "p">>, s_S1c_img}

PgInit ==
    /\ prog = "pr.geocode"
    /\ \E pattern \in {s_empty, s_pattern}, t_srs \in {s_empty, s_32630} :
            argv = [input_dir |-> Str(s_indir), outdir |-> Str(s_outdir),
                    pattern |-> Str(pattern), t_srs |-> Str(t_srs),
                    geocoding_type |-> Str(s_RangeDoppler),
                    scaling |-> Str(s_dB)]
                   @@ [k \in {"t_srs_file", "resolution_value", "offset",
                              "shapefile", "polarizations", "external_dem_file",
                              "external_dem_nan", "mapset", "location",
                              "dbase"} |-> Str(s_empty)]
    /\ \E i \in BOOLEAN, c \in BOOLEAN, p \in BOOLEAN, t \in BOOLEAN :
            flags = [e |-> FALSE, i |-> i, r |-> FALSE, l |-> FALSE, c |-> c,
                     p |-> p, t |-> t, b |-> FALSE]
    /\ \E exists \in SUBSET {s_indir, s_outdir},
          listing \in SeqsUpTo(ZipNames, MaxFiles) :
            env = [exists |-> exists, listing |-> listing]

\* __main__: options = change_dict_value(options, '', None)
PgChangeDictValue ==
    /\ prog = "pr.geocode" /\ pc = "start" /\ ~Ended
    /\ options' = change_dict_value(options, Str(s_empty), None)
    /\ pc' = "main"
    /\ UNCHANGED <<prog, argv, flags, env, self, calls, stdout, idx, status>>

\* main: the defaults of t_srs, resolution_value and polarizations (the
\* option offset is not given in the runs modelled)
PgDefaults ==
    /\ prog = "pr.geocode" /\ pc = "main" /\ ~Ended
    /\ options' =
           [options EXCEPT
              !.t_srs = IF IsNone(@) THEN PyIntVal(Epsg4326)
                        ELSE PyIntVal(PyInt(@.v)),
              !.resolution_value = IF IsNone(@) THEN PyIntVal(Resolution20)
                                   ELSE @,
              !.polarizations = IF IsNone(@) THEN Str(s_all) ELSE @]
    /\ pc' = "construct"
    /\ UNCHANGED <<prog, argv, flags, env, self, calls, stdout, idx, status>>

\* Geocode.__init__ (pr_geocode.py): self.outdir is set in the else branch
\* of "if not os.path.exists(outdir)"
Geocode_outdir(input_dir, outdir, exists) ==
    IF outdir.v \in exists THEN [outdir |-> outdir] ELSE <<>>

\* Geocode.__init__: the attributes set, or the fatal error
Geocode_init(outdir_attr, opts, fl, exists, listing) ==
    LET filter_p == IF ~IsNone(opts.pattern) /\ opts.pattern.v # <<>>
                    THEN opts.pattern.v \o s_zip
                    ELSE (s_any \o <<".">>) \o s_zip
    IN  IF opts.input_dir.v \notin exists
        THEN [raised |-> "fatal", self |-> [_dir_list |-> <<>>]]
        ELSE [raised |-> "no",
              self |-> outdir_attr @@
                       [_dir_list |-> <<>>, input_dir |-> opts.input_dir,
                        extension |-> Str(s_zip), filter_p |-> Str(filter_p),
                        files |-> DirImport_filter(opts.input_dir.v, s_zip,
                                                   filter_p, listing),
                        t_srs |-> opts.t_srs,
                        resolution_value |-> opts.resolution_value,
                        polarizations |-> opts.polarizations,
                        scaling |-> opts.scaling,
                        geocoding_type |-> opts.geocoding_type,
                        test |-> fl.t]]

\* main: pp_geocode = Geocode(...)
PgConstruct ==
    /\ prog = "pr.geocode" /\ pc = "construct" /\ ~Ended
    /\ LET r == Geocode_init(Geocode_outdir(options.input_dir, options.outdir,
                                            env.exists),
                             options, flags, env.exists, env.listing)
       IN  /\ self' = r.self
           /\ IF r.raised = "no"
              THEN pc' = "dispatch" /\ status' = status
              ELSE End(r.raised)
    /\ idx' = 1
    /\ UNCHANGED <<prog, argv, options, flags, env, calls, stdout>>

\* main: if flags['p']: pp_geocode.print_products(), one file
PgPrintFile ==
    /\ prog = "pr.geocode" /\ pc = "dispatch" /\ ~Ended
    /\ flags.p /\ idx <= Len(self.files)
    /\ stdout' = Append(stdout, [file |-> self.files[idx]])
    /\ idx' = idx + 1
    /\ UNCHANGED <<prog, pc, argv, options, flags, env, self, calls, status>>

\* main: print_products is through; return 0
PgPrintDone ==
    /\ prog = "pr.geocode" /\ pc = "dispatch" /\ ~Ended
    /\ flags.p /\ idx > Len(self.files)
    /\ End("return0")
    /\ UNCHANGED <<prog, argv, options, flags, env, self, calls, stdout, idx>>

\* Geocode.geocode: one pass of "for infile in self.files": the start
\* message (geocode.py: if self.verbose), then the call of pyroSAR's
\* geocode, which needs self.outdir and may raise, then the end message
GeocodeFile(infile, tr, verbose) ==
    LET start == IF verbose THEN <<[start |-> Basename(infile)]>> ELSE <<>>
        end   == IF verbose THEN <<[end |-> Basename(infile)]>> ELSE <<>>
    IN  IF "outdir" \notin DOMAIN self
        THEN /\ stdout' = stdout \o start
             /\ calls' = calls /\ idx' = idx
             /\ End("AttributeError")
        ELSE \E ok \in BOOLEAN :
             /\ calls' = Append(calls,
                    [op |-> "geocode", infile |-> infile,
                     outdir |-> self.outdir, t_srs |-> self.t_srs, tr |-> tr,
                     polarizations |-> self.polarizations,
                     scaling |-> self.scaling,
                     geocoding_type |-> self.geocoding_type,
                     test |-> self.test, ok |-> ok])
             /\ IF ok
                THEN /\ stdout' = stdout \o start \o end
                     /\ idx' = idx + 1
                     /\ pc' = pc /\ status' = status
                ELSE /\ stdout' = stdout \o start
                     /\ idx' = idx
                     /\ End("RuntimeError")

\* main: pp_geocode.geocode(), one file
PgGeocodeFile ==
    /\ prog = "pr.geocode" /\ pc = "dispatch" /\ ~Ended
    /\ ~flags.p /\ idx <= Len(self.files)
    /\ GeocodeFile(self.files[idx], self.resolution_value, TRUE)
    /\ UNCHANGED <<prog, argv, options, flags, env, self>>

\* main: geocode() is through; if flags['i'] the import follows, otherwise
\* return 0
PgGeocodeDone ==
    /\ prog = "pr.geocode" /\ pc = "dispatch" /\ ~Ended
    /\ ~flags.p /\ idx > Len(self.files)
    /\ IF flags.i
       THEN pc' = "import" /\ status' = status
       ELSE End("return0")
    /\ UNCHANGED <<prog, argv, options, flags, env, self, calls, stdout, idx>>

\* Geocode.import_products: '' for a parameter that is not given
PgOrEmpty(x) ==
    IF ~IsNone(x) /\ x.v # <<>> THEN x ELSE Str(s_empty)

\* main: pp_geocode.import_products(..., flags=flags): i.dr.import is run on
\* self.outdir with the flags dictionary; a failure of the command is passed
\* over
PgImportProducts ==
    /\ prog = "pr.geocode" /\ pc = "import" /\ ~Ended
    /\ IF "outdir" \notin DOMAIN self
       THEN calls' = calls /\ End("AttributeError")
       ELSE /\ \E ok \in BOOLEAN :
                 calls' = Append(calls,
                    Command("i.dr.import", flags, self.outdir, None,
                            [input |-> self.outdir, extension |-> "GEOTIFF",
                             pattern |-> PgOrEmpty(options.pattern),
                             mapset |-> PgOrEmpty(options.mapset),
                             dbase |-> PgOrEmpty(options.dbase),
                             location |-> PgOrEmpty(options.location)], ok))
            /\ End("return0")
    /\ UNCHANGED <<prog, argv, options, flags, env, self, stdout, idx>>

---------------------------------------------------------------------------
(* The class Geocode of src/gscpy/pr_geocode/geocode.py, used as
   Geocode(dir, outdir, pattern=...).geocode() *)

GcInit ==
    /\ prog = "geocode.py"
    /\ \E pattern \in {s_empty, s_pattern} :
            argv = [dir |-> Str(s_indir), outdir |-> Str(s_outdir),
                    pattern |-> Str(pattern)]
    /\ \E test \in BOOLEAN, verbose \in BOOLEAN :
            flags = [test |-> test, verbose |-> verbose]
    /\ \E exists \in SUBSET {s_indir, s_outdir},
          listing \in SeqsUpTo(ZipNames, MaxFiles) :
            env = [exists |-> exists, listing |-> listing]

\* Geocode.__init__ (geocode.py): self.outdir = dir in the else branch of
\* "if not os.path.exists(outdir)"
geocode_Geocode_outdir(dir, outdir, exists) ==
    IF outdir.v \in exists THEN [outdir |-> dir] ELSE <<>>

\* Geocode(dir, outdir, pattern, test=..., verbose=...) with the defaults of
\* the other parameters
GcConstruct ==
    /\ prog = "geocode.py" /\ pc = "start" /\ ~Ended
    /\ LET opts == [input_dir |-> options.dir, pattern |-> options.pattern,
                    t_srs |-> PyIntVal(Epsg4326),
                    resolution_value |-> PyIntVal(Resolution20),
                    polarizations |-> Str(s_all), scaling |-> Str(s_dB),
                    geocoding_type |-> Str(s_RangeDoppler)]
           r == Geocode_init(geocode_Geocode_outdir(options.dir, options.outdir,
                                                    env.exists),
                             opts, [t |-> flags.test], env.exists, env.listing)
       IN  /\ self' = r.self
           /\ IF r.raised = "no"
              THEN pc' = "geocode" /\ status' = status
              ELSE End(r.raised)
    /\ idx' = 1
    /\ UNCHANGED <<prog, argv, options, flags, env, calls, stdout>>

\* Geocode.geocode, one file
GcGeocodeFile ==
    /\ prog = "geocode.py" /\ pc = "geocode" /\ ~Ended
    /\ idx <= Len(self.files)
    /\ GeocodeFile(self.files[idx], self.resolution_value, flags.verbose)
    /\ UNCHANGED <<prog, argv, options, flags, env, self>>

\* Geocode.geocode returns
GcGeocodeDone ==
    /\ prog = "geocode.py" /\ pc = "geocode" /\ ~Ended
    /\ idx > Len(self.files)
    /\ End("return0")
    /\ UNCHANGED <<prog, argv, options, flags, env, self, calls, stdout, idx>>

---------------------------------------------------------------------------
(* t.c.register: src/gscpy/t_c_register/t_c_register.py *)

TcInit ==
    /\ prog = "t.c.register"
    /\ \E pattern \in {s_empty, s_star_tempmean}, start \in {s_empty, s_date1} :
            argv = [output |-> Str(s_precip_sum), title |-> Str(s_precip_sum),
                    description |-> Str(s_precip_sum),
                    type |-> Str(s_raster), semantictype |-> Str(s_mean),
                    separator |-> Str(s_comma), pattern |-> Str(pattern),
                    start |-> Str(start)]
                   @@ [k \in {"temporaltype", "exclude", "mapset", "region",
                              "end", "unit", "increment"} |-> Str(s_empty)]
    /\ \E i \in BOOLEAN, t \in BOOLEAN, p \in BOOLEAN, l \in BOOLEAN,
          m \in BOOLEAN :
            flags = [i |-> i, t |-> t, p |-> p, l |-> l, m |-> m]
    /\ \E listed \in BOOLEAN, maps \in SeqsUpTo(MapNames, MaxFiles) :
            env = [listed |-> listed, maps |-> maps]

\* __main__: options = change_dict_value(options, '', None)
TcChangeDictValue ==
    /\ prog = "t.c.register" /\ pc = "start" /\ ~Ended
    /\ options' = change_dict_value(options, Str(s_empty), None)
    /\ pc' = "defaults"
    /\ UNCHANGED <<prog, argv, flags, env, self, calls, stdout, idx, status>>

\* __main__: the defaults of type, semantictype, separator and temporaltype
TcDefaults ==
    /\ prog = "t.c.register" /\ pc = "defaults" /\ ~Ended
    /\ options' =
           [options EXCEPT
              !.type = IF IsNone(@) THEN Str(s_raster) ELSE @,
              !.semantictype = IF IsNone(@) THEN Str(s_mean) ELSE @,
              !.separator = IF IsNone(@) THEN Str(s_comma) ELSE @,
              !.temporaltype = IF IsNone(@) THEN Str(s_absolute) ELSE @]
    /\ pc' = "main"
    /\ UNCHANGED <<prog, argv, flags, env, self, calls, stdout, idx, status>>

\* CRegister.__init__: a dictionary of the parameters that are not None
CRegister_kwargs(keys, opts) ==
    [k \in {key \in keys : ~IsNone(opts[key])} |-> opts[k]]

\* CRegister.__init__: the attributes set; maps is what __list_files (the
\* second definition of that name in the class) returns: the maps g.list
\* lists, or 0 when g.list fails
CRegister_init(opts, maps) ==
    [output |-> opts.output, title |-> opts.title,
     description |-> opts.description, semantictype |-> opts.semantictype,
     type |-> opts.type, start |-> opts.start, end |-> opts.end,
     input |-> opts.output,
     ckwargs |-> [type |-> "strds"] @@
                 CRegister_kwargs({"output", "temporaltype", "title",
                                   "description"}, opts),
     lkwargs |-> CRegister_kwargs({"type", "separator", "pattern", "exclude",
                                   "mapset", "region"}, opts),
     rkwargs |-> [maps |-> maps, input |-> opts.output] @@
                 CRegister_kwargs({"type", "start", "unit", "increment"}, opts),
     files |-> maps]

\* main: cregister = CRegister(...), with the g.list command of __list_files
TcConstruct ==
    /\ prog = "t.c.register" /\ pc = "main" /\ ~Ended
    /\ self' = CRegister_init(options, IF env.listed THEN env.maps
                                       ELSE PyIntVal(0))
    /\ calls' = Append(calls,
           Command("g.list", "", None, None,
                   CRegister_kwargs({"type", "separator", "pattern", "exclude",
                                     "mapset", "region"}, options),
                   env.listed))
    /\ pc' = "dispatch"
    /\ idx' = 1
    /\ UNCHANGED <<prog, argv, options, flags, env, stdout, status>>

\* print_products: "for f in self.files" when self.files is 0
TcPrintFails ==
    /\ prog = "t.c.register" /\ pc = "dispatch" /\ ~Ended
    /\ flags.p /\ ~env.listed
    /\ End("TypeError")
    /\ UNCHANGED <<prog, argv, options, flags, env, self, calls, stdout, idx>>

\* main: if flags['p']: cregister.print_products(), one map
TcPrintFile ==
    /\ prog = "t.c.register" /\ pc = "dispatch" /\ ~Ended
    /\ flags.p /\ env.listed /\ idx <= Len(self.files)
    /\ stdout' = Append(stdout, [file |-> self.files[idx]])
    /\ idx' = idx + 1
    /\ UNCHANGED <<prog, pc, argv, options, flags, env, self, calls, status>>

\* main: print_products is through; return 0
TcPrintDone ==
    /\ prog = "t.c.register" /\ pc = "dispatch" /\ ~Ended
    /\ flags.p /\ env.listed /\ idx > Len(self.files)
    /\ End("return0")
    /\ UNCHANGED <<prog, argv, options, flags, env, self, calls, stdout, idx>>

\* cregister: self.__t_create(); a failure of t.create is passed over
TcCreate ==
    /\ prog = "t.c.register" /\ pc = "dispatch" /\ ~Ended
    /\ ~flags.p
    /\ \E ok \in BOOLEAN :
          calls' = Append(calls,
              Command("t.create", "", None, None, self.ckwargs, ok))
    /\ pc' = "t_register"
    /\ UNCHANGED <<prog, argv, options, flags, env, self, stdout, idx, status>>

\* cregister: self.__t_register(t); a failure of t.register is passed over
TcRegister ==
    /\ prog = "t.c.register" /\ pc = "t_register" /\ ~Ended
    /\ \E ok \in BOOLEAN :
          calls' = Append(calls,
              Command("t.register", IF flags.t THEN "i" ELSE "", None, None,
                      self.rkwargs, ok))
    /\ pc' = "list"
    /\ UNCHANGED <<prog, argv, options, flags, env, self, stdout, idx, status>>

\* a slip in main: the maps are listed whatever flag l says
TcWantsList_always ==
    TRUE

\* main: if flags['l']
TcWantsList ==
    flags.l

\* main: if flags['l']: cregister.list()
TcList ==
    /\ prog = "t.c.register" /\ pc = "list" /\ ~Ended
    /\ IF TcWantsList
       THEN \E ok \in BOOLEAN :
              calls' = Append(calls,
                  Command("t.rast.list", "", self.input, None,
                          [sep |-> "tab"], ok))
       ELSE calls' = calls
    /\ pc' = "plot"
    /\ UNCHANGED <<prog, argv, options, flags, env, self, stdout, idx, status>>

\* main: if flags['m']: cregister.plot(); return 0
TcPlot ==
    /\ prog = "t.c.register" /\ pc = "plot" /\ ~Ended
    /\ IF flags.m
       THEN \E ok \in BOOLEAN :
              calls' = Append(calls,
                  Command("g.gui.timeline", "", self.input, None, <<>>, ok))
       ELSE calls' = calls
    /\ End("return0")
    /\ UNCHANGED <<prog, argv, options, flags, env, self, stdout, idx>>

---------------------------------------------------------------------------
(* The processing chain: src/gscpy/p_chain.py *)

\* the options the module declares
PcInit ==
    /\ prog = "p_chain"
    /\ \E polarisationmode \in {s_empty, s_VV_VH}, t_srs \in {s_empty, s_32630} :
            argv = [username |-> Str(s_user), password |-> Str(s_pass),
                    outdir |-> Str(s_outdir), region |-> Str(s_region),
                    timestart |-> Str(s_date1), timeend |-> Str(s_date2),
                    polarisationmode |-> Str(polarisationmode),
                    orbitdirection |-> Str(s_ALL), producttype |-> Str(s_All),
                    sensoroperationalmode |-> Str(s_All),
                    t_srs |-> Str(t_srs),
                    geocoding_type |-> Str(s_RangeDoppler),
                    scaling |-> Str(s_dB)]
                   @@ [k \in {"t_srs_file", "resolution_value", "offset",
                              "shapefile", "orbitnumber", "external_dem_file",
                              "external_dem_nan"} |-> Str(s_empty)]
    /\ \E e \in BOOLEAN, p \in BOOLEAN, t \in BOOLEAN, b \in BOOLEAN :
            flags = [e |-> e, p |-> p, t |-> t, b |-> b]
    /\ env = <<>>

\* __main__: options = tuple_multi_string(options)
PcTupleMultiString ==
    /\ prog = "p_chain" /\ pc = "start" /\ ~Ended
    /\ options' = tuple_multi_string(options, ",")
    /\ pc' = "tupled"
    /\ UNCHANGED <<prog, argv, flags, env, self, calls, stdout, idx, status>>

\* __main__: the three calls of change_dict_value
PcChangeDictValue ==
    /\ prog = "p_chain" /\ pc = "tupled" /\ ~Ended
    /\ options' = DsNormalise(options)
    /\ pc' = "input_dir"
    /\ UNCHANGED <<prog, argv, flags, env, self, calls, stdout, idx, status>>

\* __main__: options['input_dir'] = options['outdir']; flags['i'] = True
PcInputDir ==
    /\ prog = "p_chain" /\ pc = "input_dir" /\ ~Ended
    /\ options' = [input_dir |-> options.outdir] @@ options
    /\ flags' = [i |-> TRUE] @@ flags
    /\ pc' = "main"
    /\ UNCHANGED <<prog, argv, env, self, calls, stdout, idx, status>>

\* main: the options read for __DOWNLOAD_OPT__
PcDownloadKeys ==
    {"username", "password", "region", "timestart", "timeend", "outdir",
     "producttype", "polarisationmode", "sensoroperationalmode", "orbitnumber",
     "orbitdirection"}

\* main: the options read for __GEOCODE_OPT__
PcGeocodeKeys ==
    {"input_dir", "outdir", "pattern", "t_srs", "resolution_value",
     "polarizations", "shapefile", "scaling", "geocoding_type", "offset",
     "external_dem_file", "external_dem_nan"}

\* main: the two dictionaries are built, a missing key raising KeyError;
\* then ds1.download and pr.geocode are run, a failed command raising
\* CalledModuleError
PcMain ==
    /\ prog = "p_chain" /\ pc = "main" /\ ~Ended
    /\ IF ~(PcDownloadKeys \cup PcGeocodeKeys \subseteq DOMAIN options)
       THEN calls' = calls /\ End("KeyError")
       ELSE LET fl == [i |-> flags.i, p |-> flags.p]
                download(ok) ==
                    Command("ds1.download", fl, None, None,
                            [k \in PcDownloadKeys |-> options[k]], ok)
                geocode(ok) ==
                    Command("pr.geocode", fl, None, None,
                            [removeS1BoderNoise |-> flags.b,
                             externalDEMApplyEGM |-> flags.e,
                             test |-> flags.t]
                            @@ [k \in PcGeocodeKeys |-> options[k]], ok)
            IN  \/ /\ calls' = Append(calls, download(FALSE))
                   /\ End("CalledModuleError")
                \/ \E ok \in BOOLEAN :
                   /\ calls' = calls \o <<download(TRUE), geocode(ok)>>
                   /\ End(IF ok THEN "return0" ELSE "CalledModuleError")
    /\ UNCHANGED <<prog, argv, options, flags, env, self, stdout, idx>>

---------------------------------------------------------------------------
(* The specification *)

Init ==
    /\ \/ GDbInit
       \/ DsInit
       \/ DS1Init
       \/ IdrInit
       \/ IfrInit
       \/ IS1Init
       \/ OlgInit
       \/ PgInit
       \/ GcInit
       \/ TcInit
       \/ PcInit
    /\ pc = "start"
    /\ options = argv
    /\ self = <<>>
    /\ calls = <<>>
    /\ stdout = <<>>
    /\ idx = 0
    /\ status = "running"

Next ==
    \/ GDbParse
    \/ GDbConstruct
    \/ GDbTryCandidate
    \/ GDbCreated
    \/ DsTupleMultiString
    \/ DsChangeDictValue
    \/ DsConstruct
    \/ DsPrintProducts
    \/ DsDownload
    \/ DS1DownloadMain
    \/ DS1Main
    \/ IdrParse
    \/ IdrConstruct
    \/ IdrPrintFile
    \/ IdrPrintDone
    \/ IdrMapset
    \/ IdrImportProducts
    \/ IdrImportFile
    \/ IdrImportDone
    \/ IfrTupleMultiString
    \/ IfrChangeDictValue
    \/ IfrConstruct
    \/ IfrPrintFile
    \/ IfrPrintDone
    \/ IfrMapset
    \/ IfrImportProducts
    \/ IfrImportFile
    \/ IfrImportDone
    \/ IS1Construct
    \/ IS1PrintFile
    \/ IS1ImportProducts
    \/ IS1ImportFile
    \/ IS1ImportDone
    \/ OlgChangeDictValue
    \/ OlgConstruct
    \/ OlgListFiles
    \/ OlgPrintFile
    \/ OlgPrintDone
    \/ OlgExportFile
    \/ OlgExportDone
    \/ PgChangeDictValue
    \/ PgDefaults
    \/ PgConstruct
    \/ PgPrintFile
    \/ PgPrintDone
    \/ PgGeocodeFile
    \/ PgGeocodeDone
    \/ PgImportProducts
    \/ GcConstruct
    \/ GcGeocodeFile
    \/ GcGeocodeDone
    \/ TcChangeDictValue
    \/ TcDefaults
    \/ TcConstruct
    \/ TcPrintFails
    \/ TcPrintFile
    \/ TcPrintDone
    \/ TcCreate
    \/ TcRegister
    \/ TcList
    \/ TcPlot
    \/ PcTupleMultiString
    \/ PcChangeDictValue
    \/ PcInputDir
    \/ PcMain

Spec ==
    Init /\ [][Next]_vars

---------------------------------------------------------------------------
(* The claims *)

\* the indices of the calls with the given op
CallsOf(op) ==
    {i \in DOMAIN calls : calls[i].op = op}

\* s with every hyphen removed
RemoveHyphens(s) ==
    SelectSeq(s, LAMBDA c : c # "-")

\* s without its leading and trailing blanks
RECURSIVE Strip(_)
Strip(s) ==
    IF s # <<>> /\ s[1] = " " THEN Strip(Tail(s))
    ELSE IF s # <<>> /\ s[Len(s)] = " " THEN Strip(SubSeq(s, 1, Len(s) - 1))
    ELSE s

\* C1: in g.database, once Database(...) has been evaluated: with neither or
\* both of t_srs and t_srs_file given it raised ValueError; with only a
\* missing t_srs_file it raised ValueError; with exactly one given (and the
\* given file present) it raised nothing, and right after it no command has
\* been launched.
C1_ExactlyOneSrs ==
    (prog = "g.database" /\ pc \notin {"start", "main"}) =>
        LET srs     == argv.t_srs.v # s_empty
            file    == argv.t_srs_file.v # s_empty
            present == argv.t_srs_file.v \in env.exists
        IN  /\ (srs = file) => status = "ValueError" /\ calls = <<>>
            /\ (file /\ ~srs /\ ~present) => status = "ValueError" /\ calls = <<>>
            /\ ((srs /\ ~file) \/ (file /\ ~srs /\ present)) =>
                  /\ status \notin {"ValueError", "TypeError"}
                  /\ (pc = "create_database" /\ idx = 1) => calls = <<>>

\* C2: in ds1.download, with flag p no download is ever called and a run
\* that got its query answered prints the products and exits with status 0;
\* without flag p such a run calls download exactly once, after the query,
\* and prints nothing.
C2_PrintOrDownloadOnce ==
    prog = "ds1.download" =>
        /\ flags.p => CallsOf("download") = {} /\ CallsOf("download_all") = {}
        /\ (flags.p /\ pc = "end" /\ "products" \in DOMAIN self) =>
              /\ status = "return0"
              /\ stdout = <<[files |-> env.products]>>
        /\ (~flags.p /\ pc = "end" /\ "products" \in DOMAIN self) =>
              /\ Cardinality(CallsOf("download")) = 1
              /\ stdout = <<>>
        /\ Cardinality(CallsOf("download")) <= 1
        /\ \A d \in CallsOf("download") :
              \E q \in CallsOf("query") : q < d /\ calls[q].outcome = "ok"

C2_Witness_Printed ==
    /\ prog = "ds1.download" /\ flags.p /\ status = "return0"
    /\ stdout # <<>> /\ env.products # {}

C2_Witness_Downloaded ==
    /\ prog = "ds1.download" /\ ~flags.p /\ pc = "end"
    /\ CallsOf("download") # {} /\ CallsOf("query") # {}

\* C3: in ds1.download, each of the five filter keywords is passed to the
\* hub query exactly when its option is not None after the normalisation,
\* with that option's value; '', 'ALL' and 'All' are normalised to None; with
\* the default answers no filter keyword is passed.
C3_FilterKeywords ==
    prog = "ds1.download" =>
        \A q \in CallsOf("query") :
            LET kwargs == calls[q].kwargs
                keys   == {"producttype", "polarisationmode",
                           "sensoroperationalmode", "orbitnumber",
                           "orbitdirection"}
            IN  /\ DOMAIN kwargs \subseteq keys
                /\ \A k \in keys :
                      /\ k \in DOMAIN kwargs <=> ~IsNone(options[k])
                      /\ k \in DOMAIN kwargs => PyEq(kwargs[k], options[k])
                      /\ argv[k].v \in {s_empty, s_ALL, s_All}
                            <=> IsNone(options[k])
                /\ ( /\ argv.producttype.v = s_All
                     /\ argv.sensoroperationalmode.v = s_All
                     /\ argv.orbitdirection.v = s_ALL
                     /\ argv.polarisationmode.v = s_empty
                     /\ argv.orbitnumber.v = s_empty ) => DOMAIN kwargs = {}

C3_Witness_Filtered ==
    /\ prog = "ds1.download"
    /\ \E q \in CallsOf("query") :
          /\ "producttype" \in DOMAIN calls[q].kwargs
          /\ "orbitdirection" \notin DOMAIN calls[q].kwargs
          /\ "polarisationmode" \in DOMAIN calls[q].kwargs

C3_Witness_Defaults ==
    /\ prog = "ds1.download"
    /\ argv.producttype.v = s_All /\ argv.orbitdirection.v = s_ALL
    /\ \E q \in CallsOf("query") : DOMAIN calls[q].kwargs = {}

\* C4: in ds1.download, the date range passed to the hub query is the pair
\* (timestart without its hyphens, timeend without its hyphens).
C4_DateRange ==
    prog = "ds1.download" =>
        \A q \in CallsOf("query") :
            calls[q].date = <<RemoveHyphens(argv.timestart.v),
                              RemoveHyphens(argv.timeend.v)>>

C4_Witness_TwoDates ==
    /\ prog = "ds1.download"
    /\ argv.timestart.v # argv.timeend.v
    /\ \E q \in CallsOf("query") : Len(calls[q].date[1]) = 8

\* C5: in d.s1.download and d.s1, the date range passed to the hub query is
\* the pair (timestart without its hyphens, timend without its hyphens).
C5_QueryPeriod ==
    prog \in {"d.s1.download", "d.s1"} =>
        \A q \in CallsOf("query") :
            calls[q].date = <<RemoveHyphens(argv.timestart.v),
                              RemoveHyphens(argv.timend.v)>>

\* C6: in ds1.download, once download() has been called, download_all has
\* been called with the products of the query and with option outdir as the
\* directory, whether or not outdir existed before.
C6_DownloadIntoOutdir ==
    (prog = "ds1.download" /\ CallsOf("download") # {}) =>
        \E d \in CallsOf("download_all") :
            /\ calls[d].directory_path = argv.outdir
            /\ calls[d].products = env.products

\* C7: after tuple_multi_string the keys are the same, a value without the
\* separator is the same string, and a value with the separator is the tuple
\* of its items without surrounding blanks.
C7_TupleOfItems ==
    (prog \in {"ds1.download", "i.fr.import"} /\ pc = "tupled") =>
        /\ DOMAIN options = DOMAIN argv
        /\ \A k \in DOMAIN argv :
              LET items == Split(argv[k].v, ",")
              IN  IF Len(items) = 1
                  THEN options[k].t = "str" /\ options[k].v = argv[k].v
                  ELSE /\ options[k].t = "tuple"
                       /\ options[k].v = [i \in 1..Len(items) |-> Strip(items[i])]

\* the indices of the calls that import or link a raster
ImportCalls ==
    {i \in DOMAIN calls :
        \/ calls[i].op \in {"r.import", "r.external"}
        \/ calls[i].op = "r.in.gdal" /\ calls[i].flags # "j"}

\* the indices of the projection checks (r.in.gdal -j)
CheckCalls ==
    {i \in DOMAIN calls : calls[i].op = "r.in.gdal" /\ calls[i].flags = "j"}

\* main got its importer and does not only print
Importing ==
    /\ prog \in {"i.dr.import", "i.fr.import"}
    /\ "files" \in DOMAIN self
    /\ ~flags.p

\* C8: in i.dr.import and i.fr.import, when import_products(link=True) has
\* returned, exactly one r.external command was issued for every detected
\* file, with the file as input, and no r.in.gdal import and no r.import.
C8_LinkEveryFile ==
    (Importing /\ flags.l /\ status = "return0") =>
        /\ \A k \in DOMAIN self.files :
              Cardinality({i \in CallsOf("r.external") :
                              calls[i].input = Str(self.files[k])}) = 1
        /\ ImportCalls \subseteq CallsOf("r.external")

\* C9 as stated, for the runs that import: in i.dr.import without r and l a
\* file is imported with r.in.gdal only after its projection check
\* succeeded, and a failed check is fatal and leaves that file and the later
\* ones unimported; with r no projection check is made and every file is
\* imported with r.import.
C9_Original ==
    (Importing /\ prog = "i.dr.import") =>
        /\ (~flags.r /\ ~flags.l) =>
              /\ \A i \in ImportCalls :
                    /\ calls[i].op = "r.in.gdal"
                    /\ \E j \in CheckCalls :
                          j < i /\ calls[j].ok /\ calls[j].input = calls[i].input
              /\ \A j \in CheckCalls : ~calls[j].ok =>
                    /\ status = "fatal" /\ j = Len(calls)
                    /\ \A i \in ImportCalls, k \in DOMAIN self.files :
                          (calls[i].input = Str(self.files[k])) =>
                              \E m \in (k + 1)..Len(self.files) :
                                  calls[j].input = Str(self.files[m])
        /\ flags.r =>
              /\ CheckCalls = {}
              /\ status = "return0" =>
                    /\ Cardinality(ImportCalls) = Len(self.files)
                    /\ \A i \in ImportCalls : calls[i].op = "r.import"
                    /\ \A k \in DOMAIN self.files :
                          \E i \in ImportCalls : calls[i].input = Str(self.files[k])

\* C9 as amended: the same, with the second part only for the runs with flag
\* r and without flag l; the imports with r.import are then one per file, in
\* the order of the files.
C9_CheckedImport ==
    (Importing /\ prog = "i.dr.import") =>
        /\ (~flags.r /\ ~flags.l) =>
              /\ \A i \in ImportCalls :
                    /\ calls[i].op = "r.in.gdal"
                    /\ \E j \in CheckCalls :
                          j < i /\ calls[j].ok /\ calls[j].input = calls[i].input
              /\ \A j \in CheckCalls : ~calls[j].ok =>
                    /\ status = "fatal" /\ j = Len(calls)
                    /\ \A i \in ImportCalls, k \in DOMAIN self.files :
                          (calls[i].input = Str(self.files[k])) =>
                              \E m \in (k + 1)..Len(self.files) :
                                  calls[j].input = Str(self.files[m])
        /\ (flags.r /\ ~flags.l) =>
              /\ CheckCalls = {}
              /\ status = "return0" =>
                    /\ Cardinality(ImportCalls) = Len(self.files)
                    /\ \A i \in ImportCalls : calls[i].op = "r.import"
                    /\ \A k \in DOMAIN self.files :
                          \E i \in ImportCalls : calls[i].input = Str(self.files[k])

C9_Witness_SecondCheckFails ==
    /\ Importing /\ prog = "i.dr.import" /\ ~flags.r /\ ~flags.l
    /\ Len(self.files) = 2
    /\ status = "fatal"
    /\ Cardinality(ImportCalls) = 1
    /\ Cardinality(CheckCalls) = 2

C9_Witness_Reprojected ==
    /\ Importing /\ prog = "i.dr.import" /\ flags.r /\ ~flags.l
    /\ Len(self.files) = 2
    /\ status = "return0"
    /\ Cardinality(CallsOf("r.import")) = 2

\* C10: in i.dr.import, when flag c is set and no mapset name was given, main
\* (past the print of flag p) raises ValueError and issues neither a mapset
\* creation command nor an import command.
C10_MapsetRequired ==
    ( /\ Importing /\ prog = "i.dr.import"
      /\ flags.c /\ argv.mapset.v = s_empty
      /\ pc # "dispatch" ) =>
        /\ status = "ValueError"
        /\ CallsOf("g.c.mapset") = {}
        /\ ImportCalls = {}


\* the indices of the mapset-creation commands
MapsetCalls ==
    {i \in DOMAIN calls : calls[i].op \in {"g.c.mapset", "g.mapset"}}

\* main has passed "if flags['c']" of a run that does not print
PastMapsetStep ==
    /\ "files" \in DOMAIN self
    /\ pc \in {"import_products", "import_loop", "end"}

\* the files written to stdout so far
PrintedFiles ==
    [i \in 1..Len(stdout) |-> stdout[i].file]

\* C11: in i.fr.import and i.dr.import, with flag p the detected files are
\* printed in order and the run returns 0 with neither a mapset-creation
\* command nor an importing command issued (a run ends otherwise only when
\* the input directory is missing or gdal cannot open a file); without p,
\* with flag c and a mapset name, the mapset-creation command is issued
\* exactly once, and before every importing command.
C11_PrintOrCreateFirst ==
    prog \in {"i.dr.import", "i.fr.import"} =>
        /\ flags.p =>
              /\ MapsetCalls = {}
              /\ ImportCalls = {}
              /\ status \in {"running", "return0", "fatal", "AttributeError"}
              /\ "files" \in DOMAIN self =>
                    /\ Len(stdout) <= Len(self.files)
                    /\ PrintedFiles = SubSeq(self.files, 1, Len(stdout))
                    /\ status = "return0" => Len(stdout) = Len(self.files)
        /\ (~flags.p /\ flags.c /\ argv.mapset.v # s_empty) =>
              /\ Cardinality(MapsetCalls) <= 1
              /\ \A i \in ImportCalls : \E m \in MapsetCalls : m < i
              /\ PastMapsetStep => Cardinality(MapsetCalls) = 1

\* a run of i.dr.import with c and a mapset name that created the mapset and
\* then imported a file
C11_Witness_CreatedThenImported ==
    /\ prog = "i.dr.import" /\ ~flags.p /\ flags.c
    /\ argv.mapset.v # s_empty
    /\ status = "return0"
    /\ \E m \in MapsetCalls : \E i \in ImportCalls : m < i

\* a run of i.fr.import with p that printed two files and returned 0
C11_Witness_Printed ==
    /\ prog = "i.fr.import" /\ flags.p /\ flags.c
    /\ status = "return0"
    /\ Len(stdout) = 2


\* C12: in i.s1.import, when flag p is set no importing command (r.in.gdal
\* without -j, r.import, r.external) is issued for any file.
C12_PrintOnly ==
    (prog = "i.s1.import" /\ flags.p) => ImportCalls = {}


\* the output path the claim names for a map
C13_Path(file) ==
    LET outdir == argv.outdir.v \o <<"/">>
        output == argv.output.v
    IN  IF output = s_empty THEN outdir \o file \o s_tif
        ELSE IF flags.x THEN outdir \o file \o output \o s_tif
        ELSE outdir \o output \o file \o s_tif

\* C13: in out.l.gdal, when a run that exports (flag p not set, g.list
\* succeeded) has ended, one r.out.gdal command was issued per listed map, in
\* list order, with output outdir/<map>.tif without an output name,
\* outdir/<map><output>.tif with output and flag x, and
\* outdir/<output><map>.tif with output and without x.
C13_ExportPerMap ==
    (prog = "out.l.gdal" /\ ~flags.p /\ env.listed /\ pc = "end") =>
        LET out == SelectSeq(calls, LAMBDA c : c.op = "r.out.gdal")
        IN  /\ Len(out) = Len(env.maps)
            /\ \A i \in 1..Len(out) :
                  /\ out[i].input = Str(env.maps[i])
                  /\ out[i].output = Str(C13_Path(env.maps[i]))


\* the geocode calls issued so far, in order
GeocodeCalls ==
    SelectSeq(calls, LAMBDA c : c.op = "geocode")

\* C14: in pr.geocode (and with the class Geocode of geocode.py), in a run
\* that does not print and whose input directory exists, every geocode call
\* has the user's outdir as the directory of the final files and no run ends
\* for want of self.outdir; when geocode() has returned, the geocode calls
\* are the detected .zip files, one call each, in detection order.  This
\* whether or not outdir existed before the object was constructed.
C14_GeocodeIntoOutdir ==
    (/\ prog \in {"pr.geocode", "geocode.py"}
     /\ "files" \in DOMAIN self
     /\ prog = "pr.geocode" => ~flags.p) =>
        /\ \A i \in 1..Len(GeocodeCalls) : GeocodeCalls[i].outdir = argv.outdir
        /\ status # "AttributeError"
        /\ (pc \in {"import", "end"} /\ status \in {"running", "return0"}) =>
              [i \in 1..Len(GeocodeCalls) |-> GeocodeCalls[i].infile] = self.files


\* C15: in t.c.register, with flag p the detected maps are printed in order
\* (g.list having listed them) and none of t.create, t.register, t.rast.list
\* and g.gui.timeline is issued; without p, t.create is issued before
\* t.register, t.rast.list and g.gui.timeline only after t.register,
\* t.rast.list before g.gui.timeline, each of the two only when its flag (l,
\* m) is set, and a run that returned has issued t.create and t.register
\* once and each of the two others once if its flag is set.
C15_RegisterOrder ==
    prog = "t.c.register" =>
        LET create   == CallsOf("t.create")
            register == CallsOf("t.register")
            list     == CallsOf("t.rast.list")
            plot     == CallsOf("g.gui.timeline")
        IN  /\ flags.p =>
                  /\ create \cup register \cup list \cup plot = {}
                  /\ env.listed =>
                        /\ PrintedFiles = SubSeq(env.maps, 1, Len(stdout))
                        /\ status \in {"running", "return0"}
                        /\ status = "return0" => Len(stdout) = Len(env.maps)
            /\ ~flags.p =>
                  /\ \A r \in register : \E c \in create : c < r
                  /\ \A x \in list : flags.l /\ \E r \in register : r < x
                  /\ \A x \in plot : /\ flags.m
                                      /\ \E r \in register : r < x
                                      /\ \A y \in list : y < x
                  /\ status = "return0" =>
                        /\ Cardinality(create) = 1
                        /\ Cardinality(register) = 1
                        /\ Cardinality(list) = (IF flags.l THEN 1 ELSE 0)
                        /\ Cardinality(plot) = (IF flags.m THEN 1 ELSE 0)

\* a run with l and m, without p, that issued the four commands
C15_Witness_AllFour ==
    /\ prog = "t.c.register" /\ ~flags.p /\ flags.l /\ flags.m
    /\ status = "return0"
    /\ \E c \in CallsOf("t.create"), r \in CallsOf("t.register"),
          x \in CallsOf("t.rast.list"), y \in CallsOf("g.gui.timeline") :
            c < r /\ r < x /\ x < y

\* a run with p that printed two maps
C15_Witness_Printed ==
    /\ prog = "t.c.register" /\ flags.p /\ flags.l /\ flags.m
    /\ status = "return0"
    /\ Len(stdout) = 2


\* C16: in the processing chain, a run whose main has ended has issued
\* ds1.download; pr.geocode is issued only after a ds1.download that
\* completed without error, with nothing issued before ds1.download, and
\* with the input_dir that equals the outdir passed to ds1.download.
C16_DownloadThenGeocode ==
    prog = "p_chain" =>
        /\ pc = "end" => CallsOf("ds1.download") # {}
        /\ \A d \in CallsOf("ds1.download") : d = 1
        /\ \A g \in CallsOf("pr.geocode") :
              /\ g = 2
              /\ \E d \in CallsOf("ds1.download") :
                    /\ d < g
                    /\ calls[d].ok
                    /\ calls[g].args.input_dir = calls[d].args.outdir

===========================================================================
